---- MODULE Spec2Model ----
(***************************************************************************)
(* Multi-currency ledger of the easyshop back end: exchange-rate timeline, *)
(* currency conversion, cash-drawer balances, party balances, the          *)
(* Transaction / Payment / CustomerStatement recorder and the ProductPrice *)
(* versioning ledger.                                                      *)
(*                                                                         *)
(* Money amounts are integers in minor units (0.01).  A rate is an integer *)
(* number of hundredths (90 is 0.90).  Party balances, which the code      *)
(* keeps at a finer precision than amounts, are integers in units of       *)
(* 1/BalScale minor unit.  Dates are integers.                             *)
(***************************************************************************)
EXTENDS Integers, Sequences, FiniteSets, TLC

\* ---------------------------------------------------------------- bounds
MaxEvents == 2
MaxTime == 3
MaxRates == 2
MaxPriceSaves == 3

\* ------------------------------------------------------- fixed-point scale
RateScale == 100
BalScale == 100

\* ---------------------------------------------------------------- domains
NoneVal == "None"
Currencies == {"USD", "EUR"}
Drawers == {"D1"}
Customers == {<<"customer", 1>>}
Vendors == {<<"vendor", 1>>}
\* employees and members take the same path as a vendor in CreateTransaction
Parties == Customers \cup Vendors
Variants == {"V1", "V2"}
Times == 0..MaxTime
\* the time-of-day part of a DateTimeField: 0 is midnight, 1 any later time
TimesOfDay == {0, 1}
Procs == {1, 2}

\* request inputs
Amounts == {0, 1, 2}
RateValues == {90, 95}

\* ------------------------------------------------------------------ state
VARIABLES
    now,                \* timezone.now()
    next_id,            \* primary-key sequence
    transactions,       \* Transaction rows
    payments,           \* Payment rows
    customer_statements,\* CustomerStatement rows
    cash_drawer_money,  \* CashDrawerMoney: (drawer, currency) -> amount
    balance,            \* Customer / Vendor / Employee balance
    sales,              \* Sales rows
    expenses,           \* Expense rows
    purchases,          \* Purchase rows
    currency_rates,     \* CurrencyRate rows
    is_base_currency,   \* Currency.is_base_currency of each currency
    tenants,            \* ids of the Tenant rows the default manager returns
    current_tenant,     \* _thread_locals.tenant of the request thread
    tenant_rows,        \* rows of tenant-aware tables, each with its tenant
    product_prices,     \* ProductPrice rows
    price_set,          \* variants for which a current price was ever saved
    lookup,             \* the last get_exchange_rate call and its result
    exchange_rate_cache, \* core.utils.exchange_rate_cache: key -> cached rate
    response,           \* outcome of the last request
    events,             \* number of requests handled
    pc,                 \* per request thread: position in its handler
    req,                \* per request thread: the request being served
    rd,                 \* per request thread: values read into memory
    wr                  \* per request thread: uncommitted writes

ledger == <<transactions, payments, customer_statements, cash_drawer_money, balance>>
docs == <<sales, expenses, purchases>>
threads == <<pc, req, rd, wr>>
tenancy == <<tenants, current_tenant, tenant_rows>>
vars == <<now, next_id, transactions, payments, customer_statements,
          cash_drawer_money, balance, sales, expenses, purchases,
          currency_rates, is_base_currency, tenants, current_tenant, tenant_rows,
          product_prices, price_set, lookup, exchange_rate_cache,
          response, events, pc, req, rd, wr>>

\* ---------------------------------------------------------- decimal helpers
Abs(x) == IF x < 0 THEN -x ELSE x
Sign(x) == IF x < 0 THEN -1 ELSE 1

\* n / d rounded half-even, d > 0 (Decimal quantize on store)
RoundDiv(n, d) ==
    LET a == Abs(n)
        q == a \div d
        r == a % d
        up == (2 * r > d) \/ (2 * r = d /\ q % 2 = 1)
    IN  Sign(n) * (IF up THEN q + 1 ELSE q)

Max(S) == CHOOSE x \in S : \A y \in S : y <= x

RECURSIVE SumOver(_, _)
SumOver(f, S) ==
    IF S = {} THEN 0
    ELSE LET x == CHOOSE y \in S : TRUE IN f[x] + SumOver(f, S \ {x})

\* ------------------------------------------------------------ row builders
NoId == 0

TransactionRow(id, date, amount, currency, party_type, party_id, ttype, reference_type, reference_id, cash_drawer, is_direct) ==
    [id |-> id, transaction_date |-> date, amount |-> amount,
     currency |-> currency, party_type |-> party_type, party_id |-> party_id,
     transaction_type |-> ttype, reference_type |-> reference_type,
     reference_id |-> reference_id, cash_drawer |-> cash_drawer,
     is_direct |-> is_direct]

PaymentRow(id, date, amount, currency, reference_type, reference_id, cash_drawer) ==
    [id |-> id, payment_date |-> date, amount |-> amount, currency |-> currency,
     reference_type |-> reference_type, reference_id |-> reference_id,
     cash_drawer |-> cash_drawer]

StatementRow(id, date, customer, amount, currency, statement_type, sale, cash_drawer) ==
    [id |-> id, statement_date |-> date, customer |-> customer, amount |-> amount,
     currency |-> currency, statement_type |-> statement_type, sale |-> sale,
     cash_drawer |-> cash_drawer]

\* ------------------------------------------------- exchange rates, conversion
NoRate == 0

get_base_currency == "USD"

RatesOf(c) == {r \in currency_rates : r.currency = c}

\* Currency.exchange_rate: the rate of the row with the latest effective_date
exchange_rate(c) ==
    IF RatesOf(c) = {} THEN NoRate
    ELSE (CHOOSE r \in RatesOf(c) :
             \A r2 \in RatesOf(c) : r2.effective_date <= r.effective_date).rate

\* Currency.convert_to_base_currency divides by exchange_rate; a None rate raises
ConvertRaises(from_currency) ==
    from_currency # get_base_currency /\ exchange_rate(from_currency) = NoRate

\* result in balance units (1/BalScale minor unit)
convert_to_base_currency(amount, from_currency) ==
    IF from_currency = get_base_currency THEN amount * BalScale
    ELSE RoundDiv(amount * BalScale * RateScale, exchange_rate(from_currency))

convert_to_without_from_rate(amount, from_currency, to_currency) ==
    IF from_currency = to_currency THEN <<amount, 1>>
    ELSE IF exchange_rate(from_currency) = NoRate \/ exchange_rate(to_currency) = NoRate
         THEN <<amount, 1>>
         ELSE <<amount * exchange_rate(to_currency), RateScale>>

\* Currency.convert_to as a fraction <<numerator, denominator>>
convert_to(amount, from_currency, to_currency) ==
    IF from_currency = to_currency THEN <<amount, 1>>
    ELSE IF exchange_rate(from_currency) = NoRate \/ exchange_rate(to_currency) = NoRate
         THEN <<amount, 1>>
         ELSE <<amount * exchange_rate(to_currency), exchange_rate(from_currency)>>

\* --------------------------------------------------------- cash drawer store
DrawerAmount(cdm, key) == IF key \in DOMAIN cdm THEN cdm[key] ELSE 0

\* get_or_create the (drawer, currency) row, add delta, save
AdjustDrawer(cdm, key, delta) ==
    [k \in DOMAIN cdm \cup {key} |->
        IF k = key THEN DrawerAmount(cdm, key) + delta ELSE cdm[k]]

\* sign of a drawer movement recorded with a direct transaction
SignedAmount(tx_type, amount) == IF tx_type = "income" THEN amount ELSE -amount

type_map(t) == IF t = "pay" THEN "expense" ELSE "income"

\* ------------------------------------------------- request thread state
OmittedPrice == -1

NoPrice ==
    [cost_price |-> OmittedPrice, cost_currency |-> NoneVal,
     selling_price |-> OmittedPrice, selling_currency |-> NoneVal]

NoRequest ==
    [kind |-> "none", transaction_type |-> NoneVal, party |-> <<NoneVal, 0>>,
     amount |-> 0, total |-> 0, currency |-> NoneVal, cash_drawer |-> NoneVal,
     method |-> NoneVal, variant |-> NoneVal, price |-> NoPrice,
     is_base_currency |-> FALSE]

NoReads == [drawer |-> 0, party |-> 0, at |-> 0, ids |-> {}, self |-> {}, targets |-> {}]

NoWrites ==
    [transactions |-> {}, payments |-> {}, customer_statements |-> {},
     sales |-> {}, expenses |-> {}, purchases |-> {},
     cash_drawer_money |-> [k \in {} |-> 0], balance |-> [k \in {} |-> 0],
     price_rows |-> {}, is_base_currency |-> [k \in {} |-> FALSE]]

\* ------------------------------------------------------------------- Init
Init ==
    /\ now = 0
    /\ next_id = 1
    /\ transactions = {}
    /\ payments = {}
    /\ customer_statements = {}
    /\ cash_drawer_money = [k \in {<<"D1", "USD">>} |-> 0]
    /\ balance = [p \in Parties |-> 0]
    /\ sales = {}
    /\ expenses = {}
    /\ purchases = {}
    /\ currency_rates = {[currency |-> "USD", rate |-> 100, effective_date |-> 0],
                         [currency |-> "EUR", rate |-> 50, effective_date |-> 0]}
    /\ is_base_currency = [c \in Currencies |-> c = get_base_currency]
    /\ tenants = {}
    /\ current_tenant = NoId
    /\ tenant_rows = {}
    /\ product_prices = {}
    /\ price_set = {}
    /\ lookup = [currency |-> NoneVal, target_date |-> 0, rate |-> 0]
    /\ exchange_rate_cache = [k \in {} |-> 0]
    /\ response = "none"
    /\ events = 0
    /\ pc = [p \in Procs |-> "idle"]
    /\ req = [p \in Procs |-> NoRequest]
    /\ rd = [p \in Procs |-> NoReads]
    /\ wr = [p \in Procs |-> NoWrites]

\* ------------------------------------------------- request outcome helpers
\* 400: validation failed before any write
Rejected ==
    /\ response' = "rejected"
    /\ UNCHANGED <<next_id, ledger, docs>>

\* 400 returned by the view itself, nothing written
Refused ==
    /\ response' = "refused"
    /\ UNCHANGED <<next_id, ledger, docs>>

\* 500: an exception left the handler; transaction.atomic rolled the unit back
RolledBack ==
    /\ response' = "error"
    /\ UNCHANGED <<next_id, ledger, docs>>

Handled ==
    /\ events < MaxEvents
    /\ events' = events + 1
    /\ UNCHANGED <<now, currency_rates, is_base_currency, tenancy, product_prices, price_set, lookup, exchange_rate_cache, threads>>

\* ---------------------------------------------- TransactionCreateSerializer
CreateTransaction(ttype, party, amount, currency, drawer) ==
    /\ Handled
    /\ IF amount <= 0 THEN Rejected
       ELSE IF ConvertRaises(currency) THEN RolledBack
       ELSE LET tx_type == type_map(ttype)
                signed == SignedAmount(tx_type, amount)
            IN  /\ transactions' = transactions \cup
                     {TransactionRow(next_id, now, amount, currency, party[1], party[2],
                                     tx_type, "other", NoId, drawer, TRUE)}
                /\ payments' = payments \cup
                     {PaymentRow(next_id + 1, now, amount, currency, party[1] \o "s", party[2], drawer)}
                /\ cash_drawer_money' = AdjustDrawer(cash_drawer_money, <<drawer, currency>>, signed)
                /\ balance' = [balance EXCEPT ![party] = @ + convert_to_base_currency(signed, currency)]
                /\ next_id' = next_id + 2
                /\ response' = "ok"
                /\ UNCHANGED <<customer_statements, docs>>

\* ------------------------------------------------------ ExpenseSerializer
CreateExpense(amount, currency, drawer) ==
    /\ Handled
    /\ IF amount < 1 THEN Rejected
       ELSE /\ \E tod \in TimesOfDay :
                 expenses' = expenses \cup
                    {[id |-> next_id, amount |-> amount, currency |-> currency,
                      cash_drawer |-> drawer, expense_date |-> now,
                      expense_time |-> tod]}
            /\ transactions' = transactions \cup
                 {TransactionRow(next_id + 1, now, amount, currency, "other", NoId,
                                 "expense", "expense", next_id, drawer, FALSE)}
            /\ payments' = payments \cup
                 {PaymentRow(next_id + 2, now, amount, currency, "expense", next_id, drawer)}
            /\ cash_drawer_money' = AdjustDrawer(cash_drawer_money, <<drawer, currency>>, -amount)
            /\ next_id' = next_id + 3
            /\ response' = "ok"
            /\ UNCHANGED <<customer_statements, balance, sales, purchases>>

\* ExpenseViewSet.destroy
DestroyExpense(e) ==
    /\ Handled
    /\ e \in expenses
    /\ cash_drawer_money' =
         IF <<e.cash_drawer, e.currency>> \in DOMAIN cash_drawer_money
         THEN AdjustDrawer(cash_drawer_money, <<e.cash_drawer, e.currency>>, e.amount)
         ELSE cash_drawer_money
    /\ payments' = {p \in payments :
                      ~(p.reference_type = "expense" /\ p.reference_id = e.id)}
    /\ transactions' = {t \in transactions :
                      ~(t.reference_type = "expense" /\ t.reference_id = e.id)}
    /\ expenses' = expenses \ {e}
    /\ response' = "ok"
    /\ UNCHANGED <<next_id, customer_statements, balance, sales, purchases>>

\* ExpenseViewSet update / partial_update: the serializer has no update of its
\* own, so the writable fields are set on the row and the row is saved
UpdateExpense(e, amount, currency, drawer) ==
    /\ Handled
    /\ e \in expenses
    /\ IF amount < 1 THEN Rejected
       ELSE /\ expenses' = (expenses \ {e}) \cup
                 {[e EXCEPT !.amount = amount, !.currency = currency,
                            !.cash_drawer = drawer]}
            /\ response' = "ok"
            /\ UNCHANGED <<next_id, ledger, sales, purchases>>

\* ------------------------------------------- CustomerStatementSerializer
CreateStatement(customer, amount, currency, stype, drawer) ==
    /\ Handled
    /\ IF amount <= 0
          \/ (drawer # NoneVal /\ ~\E k \in DOMAIN cash_drawer_money : k[1] = drawer)
       THEN Rejected
       ELSE IF ConvertRaises(currency) THEN RolledBack
       ELSE LET signed == IF stype = "loan" THEN -amount ELSE amount
            IN  /\ customer_statements' = customer_statements \cup
                     {StatementRow(next_id, now, customer[2], amount, currency, stype, NoId, drawer)}
                /\ transactions' = transactions \cup
                     {TransactionRow(next_id + 1, now, amount, currency, "customer", customer[2],
                                     IF stype = "cash" THEN "income" ELSE "expense",
                                     "statement", next_id, drawer, FALSE)}
                /\ balance' = [balance EXCEPT ![customer] = @ + convert_to_base_currency(signed, currency)]
                /\ cash_drawer_money' =
                     IF drawer # NoneVal
                     THEN AdjustDrawer(cash_drawer_money, <<drawer, currency>>, signed)
                     ELSE cash_drawer_money
                /\ next_id' = next_id + 2
                /\ response' = "ok"
                /\ UNCHANGED <<payments, docs>>

\* ------------------------------------------------------------------ sales
RateOr1(c) == IF exchange_rate(c) = NoRate THEN 1 ELSE exchange_rate(c)

RECURSIVE RateProduct(_)
RateProduct(S) ==
    IF S = {} THEN 1
    ELSE LET c == CHOOSE x \in S : TRUE IN RateOr1(c) * RateProduct(S \ {c})

\* Sales.paid_amount over the Payment rows of the sale, as numerator over
\* the common denominator RateProduct(Currencies)
RECURSIVE PaidNumerator(_, _)
PaidNumerator(pays, sale_currency) ==
    IF pays = {} THEN 0
    ELSE LET p == CHOOSE x \in pays : TRUE
             f == convert_to(p.amount, p.currency, sale_currency)
         IN  f[1] * (RateProduct(Currencies) \div f[2])
             + PaidNumerator(pays \ {p}, sale_currency)

SalePayments(pays, sale_id) ==
    {p \in pays : p.reference_type = "sale" /\ p.reference_id = sale_id}

\* round(sale.balance_due, 2)
RemainingPayment(total, pays, sale_currency) ==
    RoundDiv(total * RateProduct(Currencies) - PaidNumerator(pays, sale_currency),
             RateProduct(Currencies))

\* the type the sale payment's Transaction row gets: the code compares the
\* builtin `type` with "tender", which is never equal
SalePaymentTransactionType == "expense"

\* rows and drawer movements of SaleCreateUpdateSerializer._make_payment for
\* the i-th payment of the request
MakePaymentRows(pays, i, sale_id, customer_id, first_id) ==
    LET b == first_id + 3 * (i - 1)
        p == pays[i]
    IN  [payment |-> PaymentRow(b, now, p.amount, p.currency, "sale", sale_id, p.cash_drawer),
         transaction |-> TransactionRow(b + 1, now, p.amount, p.currency, "customer", customer_id,
                                        SalePaymentTransactionType, "sale", sale_id,
                                        p.cash_drawer, FALSE),
         statement |-> StatementRow(b + 2, now, customer_id, p.amount, p.currency, "cash",
                                    sale_id, p.cash_drawer)]

RECURSIVE DrawerAfterPayments(_, _, _)
DrawerAfterPayments(cdm, pays, i) ==
    IF i > Len(pays) THEN cdm
    ELSE DrawerAfterPayments(
            AdjustDrawer(cdm, <<pays[i].cash_drawer, pays[i].currency>>, pays[i].amount),
            pays, i + 1)

\* SaleCreateUpdateSerializer._add_to_customer_account
LoanStatements(customer_id, remaining, sale, id) ==
    IF remaining > 0 /\ customer_id # NoId
    THEN {StatementRow(id, sale.sale_date, customer_id, remaining, sale.currency,
                       "loan", sale.id, NoneVal)}
    ELSE {}

BalanceAfterLoan(bal, customer_id, remaining, currency) ==
    IF remaining > 0 /\ customer_id # NoId
    THEN [bal EXCEPT ![<<"customer", customer_id>>] =
              @ - convert_to_base_currency(remaining, currency)]
    ELSE bal

\* SaleCreateUpdateSerializer.create
CreateSale(customer_id, total, currency, sale_date, pays) ==
    /\ Handled
    /\ IF \E i \in 1..Len(pays) : pays[i].amount < 1 THEN Rejected
       ELSE
       LET sale == [id |-> next_id, customer |-> customer_id, total_amount |-> total,
                    currency |-> currency, sale_date |-> sale_date]
           made == {MakePaymentRows(pays, i, sale.id, customer_id, next_id + 1) : i \in 1..Len(pays)}
           newpays == {m.payment : m \in made}
           remaining == RemainingPayment(total, newpays, currency)
           loan_id == next_id + 1 + 3 * Len(pays)
       IN  IF remaining > 0 /\ customer_id # NoId /\ ConvertRaises(currency) THEN RolledBack
           ELSE
           /\ sales' = sales \cup {sale}
           /\ payments' = payments \cup newpays
           /\ transactions' = transactions \cup {m.transaction : m \in made}
           /\ customer_statements' = customer_statements
                \cup (IF customer_id # NoId THEN {m.statement : m \in made} ELSE {})
                \cup LoanStatements(customer_id, remaining, sale, loan_id)
           /\ cash_drawer_money' = DrawerAfterPayments(cash_drawer_money, pays, 1)
           /\ balance' = BalanceAfterLoan(balance, customer_id, remaining, currency)
           /\ next_id' = loan_id + 1
           /\ response' = "ok"
           /\ UNCHANGED <<expenses, purchases>>

\* the sale's loan statement, CustomerStatement.objects.filter(...).first()
OriginalLoan(sale) ==
    {st \in customer_statements : st.sale = sale.id /\ st.statement_type = "loan"}

\* SalesViewSet.destroy
DestroySale(s) ==
    /\ Handled
    /\ s \in sales
    /\ IF PaidNumerator(SalePayments(payments, s.id), s.currency) > 0 THEN Refused
       ELSE IF s.customer # NoId /\ \E l \in OriginalLoan(s) : ConvertRaises(l.currency)
       THEN RolledBack
       ELSE /\ IF s.customer # NoId /\ OriginalLoan(s) # {}
               THEN LET l == CHOOSE x \in OriginalLoan(s) : TRUE
                    IN  /\ balance' = [balance EXCEPT ![<<"customer", s.customer>>] =
                                          @ + convert_to_base_currency(l.amount, l.currency)]
                        /\ customer_statements' = customer_statements \ {l}
               ELSE UNCHANGED <<balance, customer_statements>>
            /\ transactions' = {t \in transactions :
                                  ~(t.reference_type = "sale" /\ t.reference_id = s.id)}
            /\ sales' = sales \ {s}
            /\ response' = "ok"
            /\ UNCHANGED <<next_id, payments, cash_drawer_money, expenses, purchases>>

\* SaleCreateUpdateSerializer.update: reverse the old loan, recompute the
\* totals from the new items, record the new loan
UpdateSale(s, new_total) ==
    /\ Handled
    /\ s \in sales
    /\ LET reversing == s.customer # NoId /\ OriginalLoan(s) # {}
           l == CHOOSE x \in OriginalLoan(s) : TRUE
           remaining == RemainingPayment(new_total, SalePayments(payments, s.id), s.currency)
           updated == [s EXCEPT !.total_amount = new_total]
           bal1 == IF reversing
                   THEN [balance EXCEPT ![<<"customer", s.customer>>] =
                            @ + convert_to_base_currency(l.amount, l.currency)]
                   ELSE balance
           st1 == IF reversing
                  THEN (customer_statements \ {l}) \cup
                       {StatementRow(next_id, now, s.customer, -l.amount, l.currency,
                                     "reversal", s.id, NoneVal)}
                  ELSE customer_statements
       IN  IF (reversing /\ ConvertRaises(l.currency))
              \/ (remaining > 0 /\ s.customer # NoId /\ ConvertRaises(s.currency))
           THEN RolledBack
           ELSE /\ balance' = BalanceAfterLoan(bal1, s.customer, remaining, s.currency)
                /\ customer_statements' = st1 \cup LoanStatements(s.customer, remaining, updated, next_id + 1)
                /\ sales' = (sales \ {s}) \cup {updated}
                /\ next_id' = next_id + 2
                /\ response' = "ok"
                /\ UNCHANGED <<transactions, payments, cash_drawer_money, expenses, purchases>>

\* -------------------------------------------------------------- purchases
Round2(f) == RoundDiv(f[1], f[2])

\* PurchaseCreateSerializer.create with one item and its payment
CreatePurchase(vendor, quantity, unit_cost, currency, method, pay_currency, drawer) ==
    /\ Handled
    /\ LET total == quantity * unit_cost
           purchase == [id |-> next_id, vendor |-> vendor[2], total_amount |-> total,
                        currency |-> currency, status |-> "pending", purchase_date |-> now]
           payment_amount == Round2(convert_to(total, currency, pay_currency))
       IN  IF method = "loan" /\ ConvertRaises(currency) THEN RolledBack
           ELSE
           /\ purchases' = purchases \cup {purchase}
           /\ payments' = IF method = "cash"
                THEN payments \cup {PaymentRow(next_id + 1, now, payment_amount, pay_currency,
                                               "purchase", purchase.id, drawer)}
                ELSE payments
           /\ transactions' = IF method = "cash"
                THEN transactions \cup
                     {TransactionRow(next_id + 2, now, payment_amount, pay_currency, "vendor",
                                     vendor[2], "expense", "purchase", purchase.id, drawer, FALSE)}
                ELSE transactions
           /\ cash_drawer_money' = IF method = "cash"
                THEN AdjustDrawer(cash_drawer_money, <<drawer, pay_currency>>, -payment_amount)
                ELSE cash_drawer_money
           /\ balance' = IF method = "loan"
                THEN [balance EXCEPT ![vendor] = @ + convert_to_base_currency(total, currency)]
                ELSE balance
           /\ next_id' = next_id + 3
           /\ response' = "ok"
           /\ UNCHANGED <<customer_statements, sales, expenses>>

\* PurchaseUpdateSerializer.update.  The cancellation's transaction_type,
\* 'purchase_cancellation', is longer than the column's max_length of 20:
\* a database that enforces the length raises and the update rolls back,
\* one that does not stores the row.
UpdatePurchase(p, new_status, enforces_length) ==
    /\ Handled
    /\ p \in purchases
    /\ p.status # new_status
    /\ IF new_status = "cancelled" /\ enforces_length THEN RolledBack
       ELSE /\ purchases' = (purchases \ {p}) \cup {[p EXCEPT !.status = new_status]}
            /\ transactions' =
                 IF p.status = "draft" /\ new_status = "pending"
                 THEN transactions \cup
                      {TransactionRow(next_id, now, p.total_amount, p.currency, "vendor", p.vendor,
                                      "purchase_commitment", "purchase", p.id, NoneVal, FALSE)}
                 ELSE IF new_status \in {"partially_received", "received"} THEN transactions
                 ELSE IF new_status = "cancelled"
                 THEN transactions \cup
                      {TransactionRow(next_id, now, -p.total_amount, p.currency, "vendor", p.vendor,
                                      "purchase_cancellation", "purchase", p.id, NoneVal, FALSE)}
                 ELSE transactions
            /\ next_id' = next_id + 1
            /\ response' = "ok"
            /\ UNCHANGED <<payments, customer_statements, cash_drawer_money, balance,
                           sales, expenses>>

\* ------------------------------------------------------ TransactionViewSet
\* PATCH /transactions/{id}/ (ModelViewSet.partial_update, TransactionSerializer)
PartialUpdateTransaction(t, amount) ==
    /\ Handled
    /\ t \in transactions
    /\ t.amount # amount
    /\ transactions' = (transactions \ {t}) \cup {[t EXCEPT !.amount = amount]}
    /\ response' = "ok"
    /\ UNCHANGED <<next_id, payments, customer_statements, cash_drawer_money, balance, docs>>

\* DELETE /transactions/{id}/ (ModelViewSet.destroy, soft delete)
DestroyTransaction(t) ==
    /\ Handled
    /\ t \in transactions
    /\ transactions' = transactions \ {t}
    /\ response' = "ok"
    /\ UNCHANGED <<next_id, payments, customer_statements, cash_drawer_money, balance, docs>>

\* ------------------------------------------------------- request inputs
TransactionKinds == {"pay", "receive"}
StatementTypes == {"cash", "loan"}
SaleTotals == {2}
NewSaleTotals == {1, 2}
SalePaymentLists ==
    {<<>>} \cup {<<[amount |-> a, currency |-> c, cash_drawer |-> d]>> :
                    a \in Amounts, c \in Currencies, d \in Drawers}
Quantities == {1}
UnitCosts == {0, 2}
PaymentMethods == {"cash", "free", "loan"}
NewStatuses == {"received", "cancelled"}
PatchAmounts == {0, 3}

\* -------------------------------------------------- the ledger, one request
\* at a time
Next ==
    \/ \E tt \in TransactionKinds, party \in Parties, a \in Amounts,
          c \in Currencies, d \in Drawers : CreateTransaction(tt, party, a, c, d)
    \/ \E a \in Amounts, c \in Currencies, d \in Drawers : CreateExpense(a, c, d)
    \/ \E e \in expenses : DestroyExpense(e)
    \/ \E e \in expenses, a \in Amounts, c \in Currencies, d \in Drawers :
          UpdateExpense(e, a, c, d)
    \/ \E cu \in Customers, a \in Amounts, c \in Currencies, st \in StatementTypes,
          d \in Drawers \cup {NoneVal} : CreateStatement(cu, a, c, st, d)
    \/ \E cu \in {NoId, 1}, tot \in SaleTotals, c \in Currencies, sd \in {now},
          ps \in SalePaymentLists : CreateSale(cu, tot, c, sd, ps)
    \/ \E s \in sales : DestroySale(s)
    \/ \E s \in sales, tot \in NewSaleTotals : UpdateSale(s, tot)
    \/ \E v \in Vendors, q \in Quantities, u \in UnitCosts, c \in Currencies,
          m \in PaymentMethods, pcur \in Currencies, d \in Drawers :
          CreatePurchase(v, q, u, c, m, pcur, d)
    \/ \E p \in purchases, st \in NewStatuses, enf \in BOOLEAN : UpdatePurchase(p, st, enf)
    \/ \E t \in transactions, a \in PatchAmounts : PartialUpdateTransaction(t, a)
    \/ \E t \in transactions : DestroyTransaction(t)

Spec == Init /\ [][Next]_vars

\* expenses only: create, update, delete
NextExpense ==
    \/ \E a \in Amounts, c \in Currencies, d \in Drawers : CreateExpense(a, c, d)
    \/ \E e \in expenses, a \in Amounts, c \in Currencies, d \in Drawers :
          UpdateExpense(e, a, c, d)
    \/ \E e \in expenses : DestroyExpense(e)

SpecExpense == Init /\ [][NextExpense]_vars

\* ===================================================== exchange-rate timeline
NoDate == -1

\* the rows kept by .filter(currency_id=..., effective_date__lte=target_date)
rate_objs(currency_id, target_date) ==
    {r \in currency_rates :
        r.currency = currency_id /\ r.effective_date <= target_date}

\* the rows .order_by("-effective_date").first() may return
first_by_effective_date_desc(rows) ==
    {r \in rows : \A r2 \in rows : r2.effective_date <= r.effective_date}

get_exchange_rate_latest(currency_id, target_date) ==
    IF currency_id = NoneVal THEN {RateScale}
    ELSE IF RatesOf(currency_id) = {} THEN {RateScale}
    ELSE {r.rate : r \in first_by_effective_date_desc(RatesOf(currency_id))}

get_exchange_rate_before(currency_id, target_date) ==
    IF currency_id = NoneVal THEN {RateScale}
    ELSE LET date == IF target_date = NoDate THEN now ELSE target_date
             rows == {r \in rate_objs(currency_id, date) : r.effective_date < date}
         IN  IF rows = {} THEN {RateScale}
             ELSE {r.rate : r \in first_by_effective_date_desc(rows)}

\* core.utils.get_exchange_rate: the set of values the call may return
get_exchange_rate(currency_id, target_date) ==
    IF currency_id = NoneVal THEN {RateScale}
    ELSE LET date == IF target_date = NoDate THEN now ELSE target_date
             rows == rate_objs(currency_id, date)
         IN  IF rows = {} THEN {RateScale}
             ELSE {r.rate : r \in first_by_effective_date_desc(rows)}

\* a CurrencyRate row is stored (admin, or CurrencySerializer with date = now)
RecordRate(c, rate, effective_date) ==
    /\ Cardinality(currency_rates) < MaxRates
    /\ currency_rates' = currency_rates \cup
           {[currency |-> c, rate |-> rate, effective_date |-> effective_date]}
    /\ UNCHANGED <<now, next_id, ledger, docs, is_base_currency, tenancy, product_prices,
                   price_set, lookup, exchange_rate_cache, response, events, threads>>

\* a caller asks for the rate of a currency at a date
QueryRate(c, target_date) ==
    /\ \E r \in get_exchange_rate(c, target_date) :
          lookup' = [currency |-> c,
                     target_date |-> IF target_date = NoDate THEN now ELSE target_date,
                     rate |-> r]
    /\ UNCHANGED <<now, next_id, ledger, docs, currency_rates, is_base_currency, tenancy, product_prices,
                   price_set, exchange_rate_cache, response, events, threads>>

Tick ==
    /\ now < MaxTime
    /\ now' = now + 1
    /\ UNCHANGED <<next_id, ledger, docs, currency_rates, is_base_currency, tenancy, product_prices, price_set,
                   lookup, exchange_rate_cache, response, events, threads>>

\* core.utils.get_cached_exchange_rate: the set of values the call may return
get_cached_exchange_rate(currency_id, date) ==
    IF <<currency_id, date>> \in DOMAIN exchange_rate_cache
    THEN {exchange_rate_cache[<<currency_id, date>>]}
    ELSE get_exchange_rate(currency_id, date)

\* a report asks for a rate through the cache; a miss stores what
\* get_exchange_rate returned under the key
QueryCachedRate(c, date) ==
    /\ events < MaxEvents
    /\ events' = events + 1
    /\ \E r \in get_cached_exchange_rate(c, date) :
          /\ exchange_rate_cache' =
                [k \in DOMAIN exchange_rate_cache \cup {<<c, date>>} |->
                    IF k = <<c, date>> THEN r ELSE exchange_rate_cache[k]]
          /\ lookup' = [currency |-> c, target_date |-> date, rate |-> r]
    /\ UNCHANGED <<now, next_id, ledger, docs, currency_rates, is_base_currency, tenancy,
                   product_prices, price_set, response, threads>>

InitRate ==
    /\ now = 0
    /\ next_id = 1
    /\ transactions = {}
    /\ payments = {}
    /\ customer_statements = {}
    /\ cash_drawer_money = [k \in {<<"D1", "USD">>} |-> 0]
    /\ balance = [p \in Parties |-> 0]
    /\ sales = {}
    /\ expenses = {}
    /\ purchases = {}
    /\ currency_rates = {}
    /\ is_base_currency = [c \in Currencies |-> c = get_base_currency]
    /\ tenants = {}
    /\ current_tenant = NoId
    /\ tenant_rows = {}
    /\ product_prices = {}
    /\ price_set = {}
    /\ lookup = [currency |-> NoneVal, target_date |-> 0, rate |-> 0]
    /\ exchange_rate_cache = [k \in {} |-> 0]
    /\ response = "none"
    /\ events = 0
    /\ pc = [p \in Procs |-> "idle"]
    /\ req = [p \in Procs |-> NoRequest]
    /\ rd = [p \in Procs |-> NoReads]
    /\ wr = [p \in Procs |-> NoWrites]

NextRate ==
    \/ \E c \in Currencies, r \in RateValues, d \in Times : RecordRate(c, r, d)
    \/ \E c \in Currencies \cup {NoneVal}, d \in Times \cup {NoDate} : QueryRate(c, d)
    \/ Tick

SpecRate == InitRate /\ [][NextRate]_vars

\* rates recorded and looked up through the cache of one server process
NextCache ==
    \/ \E c \in Currencies, r \in RateValues, d \in Times : RecordRate(c, r, d)
    \/ \E c \in Currencies, d \in Times : QueryCachedRate(c, d)
    \/ Tick

SpecCache == InitRate /\ [][NextCache]_vars

\* C10: whenever a rate row of the currency with effective_date <= T exists,
\* get_exchange_rate(currency, T) returns the rate of a row with the greatest
\* such effective_date, for every currency and every date.
LatestDateUpTo(c, T) ==
    Max({r.effective_date : r \in {x \in currency_rates :
                                      x.currency = c /\ x.effective_date <= T}})

RateReturnsLatestUpTo ==
    \A c \in Currencies, T \in Times :
        (\E r \in currency_rates : r.currency = c /\ r.effective_date <= T)
        => get_exchange_rate(c, T) =
              {r.rate : r \in {x \in currency_rates :
                  x.currency = c /\ x.effective_date = LatestDateUpTo(c, T)}}

\* the example of the claim: EUR 0.90 from date 0, 0.95 from date 2; the rate
\* asked at date 1 is 0.90
RateLookupBetweenRows ==
    /\ RatesOf("EUR") = {[currency |-> "EUR", rate |-> 90, effective_date |-> 0],
                         [currency |-> "EUR", rate |-> 95, effective_date |-> 2]}
    /\ lookup = [currency |-> "EUR", target_date |-> 1, rate |-> 90]

\* C11: for a currency that has rate rows, none of them with effective_date
\* at or before T, get_exchange_rate(currency, T) returns the currency's most
\* recent rate; it returns 1 only for a currency with no rate row at all.
RateFallsBackToMostRecent ==
    \A c \in Currencies, T \in Times :
        /\ (RatesOf(c) # {} /\ rate_objs(c, T) = {})
           => get_exchange_rate(c, T) \subseteq
                 {r.rate : r \in first_by_effective_date_desc(RatesOf(c))}
        /\ RatesOf(c) = {} => get_exchange_rate(c, T) = {RateScale}

\* C20 as stated: get_exchange_rate gives the same rate at T1 and at T2 > T1
\* whenever the currency has no rate row with effective_date strictly between
\* T1 and T2, a row effective exactly at T2 included.
RateSameUnlessRateStrictlyBetween ==
    \A c \in Currencies, T1 \in Times, T2 \in Times :
        (/\ T1 < T2
         /\ ~\E r \in RatesOf(c) : T1 < r.effective_date /\ r.effective_date < T2)
        => get_exchange_rate(c, T1) = get_exchange_rate(c, T2)

\* C20 as amended: get_exchange_rate gives the same rate at T1 and at T2 > T1
\* whenever the currency has no rate row with effective_date after T1 and at
\* or before T2.
RateSameUnlessRateUpToT2 ==
    \A c \in Currencies, T1 \in Times, T2 \in Times :
        (/\ T1 < T2
         /\ ~\E r \in RatesOf(c) : T1 < r.effective_date /\ r.effective_date <= T2)
        => get_exchange_rate(c, T1) = get_exchange_rate(c, T2)

\* EUR 0.90 from date 1 and 0.95 from date 3: the rate asked at date 2 is the
\* rate of date 1
RateLookupBeforeNextRow ==
    /\ RatesOf("EUR") = {[currency |-> "EUR", rate |-> 90, effective_date |-> 1],
                         [currency |-> "EUR", rate |-> 95, effective_date |-> 3]}
    /\ lookup = [currency |-> "EUR", target_date |-> 2, rate |-> 90]
    /\ get_exchange_rate("EUR", 1) = {90}

\* ==================================================== ProductPrice versioning
PriceRow(id, variant, cost_price, cost_currency, selling_price, selling_currency, is_current) ==
    [id |-> id, variant |-> variant, cost_price |-> cost_price,
     cost_currency |-> cost_currency, selling_price |-> selling_price,
     selling_currency |-> selling_currency, effective_date |-> NoDate,
     end_date |-> NoDate, is_current |-> is_current]

\* filter(product, variant, is_current=True).exclude(pk=self.pk)
current_prices(prices, self) ==
    {r \in prices : r.variant = self.variant /\ r.is_current /\ r.id # self.id}

\* .last() under Meta.ordering = ['-effective_date']
last_current(rows) ==
    CHOOSE r \in rows : \A r2 \in rows : r.effective_date <= r2.effective_date

\* "not getattr(self, field)": None and 0 both count as missing
FalsyPrice(v) == v = OmittedPrice \/ v = 0

inherit_fields(self, last) ==
    [self EXCEPT
        !.cost_price = IF FalsyPrice(@) THEN last.cost_price ELSE @,
        !.cost_currency = IF @ = NoneVal THEN last.cost_currency ELSE @,
        !.selling_price = IF FalsyPrice(@) THEN last.selling_price ELSE @,
        !.selling_currency = IF @ = NoneVal THEN last.selling_currency ELSE @]

keep_current(prices, self) == prices

\* current_prices.update(is_current=False)
deactivate_current(prices, self) ==
    {IF r \in current_prices(prices, self) THEN [r EXCEPT !.is_current = FALSE] ELSE r :
        r \in prices}

\* current_prices.filter(end_date__isnull=True).update(end_date=now()): the
\* queryset is evaluated again, against the rows as they are now
close_current(prices, self) ==
    {IF r \in current_prices(prices, self) /\ r.end_date = NoDate
        THEN [r EXCEPT !.end_date = now] ELSE r : r \in prices}

\* NOT NULL columns of the row about to be written
PriceRowValid(r) ==
    /\ r.cost_price # OmittedPrice
    /\ r.selling_price # OmittedPrice
    /\ r.cost_currency # NoneVal
    /\ r.selling_currency # NoneVal

\* the row ProductPrice.save writes for self
price_to_save(prices, self) ==
    IF self.is_current /\ current_prices(prices, self) # {}
    THEN inherit_fields(self, last_current(current_prices(prices, self)))
    ELSE self

\* ProductPrice.save: the table after the save (effective_date is auto_now)
save_price(prices, self) ==
    LET others == IF self.is_current
                     THEN close_current(deactivate_current(prices, self), self)
                     ELSE prices
    IN  {r \in others : r.id # self.id}
          \cup {[price_to_save(prices, self) EXCEPT !.effective_date = now]}

\* ProductPrice.objects.create(...)
CreateProductPrice(variant, f, is_current) ==
    LET self == PriceRow(next_id, variant, f.cost_price, f.cost_currency,
                         f.selling_price, f.selling_currency, is_current)
    IN  /\ events < MaxPriceSaves
        /\ events' = events + 1
        /\ IF PriceRowValid(price_to_save(product_prices, self))
           THEN /\ product_prices' = save_price(product_prices, self)
                /\ price_set' = IF is_current THEN price_set \cup {variant} ELSE price_set
                /\ next_id' = next_id + 1
                /\ response' = "created"
           ELSE /\ response' = "error"
                /\ UNCHANGED <<product_prices, price_set, next_id>>
        /\ UNCHANGED <<now, ledger, docs, currency_rates, is_base_currency, tenancy, lookup, exchange_rate_cache, threads>>

ResaveProductPriceAsCurrent(row) ==
    /\ events < MaxPriceSaves
    /\ events' = events + 1
    /\ product_prices' = save_price(product_prices, [row EXCEPT !.is_current = TRUE])
    /\ price_set' = price_set \cup {row.variant}
    /\ response' = "updated"
    /\ UNCHANGED <<now, next_id, ledger, docs, currency_rates, is_base_currency, tenancy,
                   lookup, exchange_rate_cache, threads>>

\* an existing row is saved again (ProductPriceAdmin change form): is_current
\* is a read-only field there, the row is saved with the flag it has
ResaveProductPrice(row) ==
    /\ events < MaxPriceSaves
    /\ events' = events + 1
    /\ product_prices' = save_price(product_prices, row)
    /\ price_set' = IF row.is_current THEN price_set \cup {row.variant} ELSE price_set
    /\ response' = "updated"
    /\ UNCHANGED <<now, next_id, ledger, docs, currency_rates, is_base_currency, tenancy,
                   lookup, exchange_rate_cache, threads>>

PriceInputs ==
    {[cost_price |-> 5, cost_currency |-> "USD",
      selling_price |-> 7, selling_currency |-> "EUR"],
     [cost_price |-> OmittedPrice, cost_currency |-> NoneVal,
      selling_price |-> 8, selling_currency |-> "USD"],
     [cost_price |-> 0, cost_currency |-> "USD",
      selling_price |-> 7, selling_currency |-> "EUR"]}

NextPrice ==
    \/ \E v \in Variants, f \in PriceInputs, cur \in BOOLEAN :
          CreateProductPrice(v, f, cur)
    \/ \E r \in product_prices : ResaveProductPrice(r)
    \/ Tick

SpecPrice == Init /\ [][NextPrice]_vars

CurrentRows(v) == {r \in product_prices : r.variant = v /\ r.is_current}

Ids(rows) == {r.id : r \in rows}

DrawerKeys == Drawers \X Currencies

\* Transaction rows inserted by the step that move cash of drawer key k
NewCashTransactions(k) ==
    {t \in transactions' :
        /\ t.id \notin Ids(transactions)
        /\ t.cash_drawer = k[1] /\ t.currency = k[2]
        /\ t.transaction_type \in {"income", "expense"}}

\* C4: every step that records Transaction rows with a cash drawer moves the
\* drawer's balance in the row's currency by the rows' amounts, up for a row
\* of type income and down for a row of type expense.
DrawerMovesWithTransactionType ==
    [][\A k \in DrawerKeys :
          NewCashTransactions(k) # {}
          => DrawerAmount(cash_drawer_money', k) - DrawerAmount(cash_drawer_money, k)
             = SumOver([t \in NewCashTransactions(k) |->
                           SignedAmount(t.transaction_type, t.amount)],
                       NewCashTransactions(k))]_vars

\* C7: every Transaction row and every Payment row has an amount above zero.
RecordedAmountsPositive ==
    /\ \A t \in transactions : t.amount > 0
    /\ \A p \in payments : p.amount > 0

\* C8: a Transaction row, once created, is kept unchanged by every step
\* except the reversal of the sale or the expense it was recorded for.
TransactionsAppendOnly ==
    [][\A t \in transactions :
          \/ t \in transactions'
          \/ /\ t.reference_type = "sale"
             /\ t.reference_id \in Ids(sales) \ Ids(sales')
          \/ /\ t.reference_type = "expense"
             /\ t.reference_id \in Ids(expenses) \ Ids(expenses')]_vars

RefersTo(party) ==
    [transactions |-> {t \in transactions' \cup transactions :
                          t.party_type = party[1] /\ t.party_id = party[2]},
     payments |-> {p \in payments' \cup payments :
                      p.reference_type = party[1] \o "s" /\ p.reference_id = party[2]},
     statements |-> {st \in customer_statements' \cup customer_statements :
                        party[1] = "customer" /\ st.customer = party[2]}]

\* C9: every step that changes a party's balance inserts or removes a
\* Transaction, Payment or CustomerStatement row that refers to that party.
BalanceChangeLeavesLedgerRow ==
    [][\A party \in Parties :
          balance'[party] # balance[party]
          => \/ \E t \in RefersTo(party).transactions :
                   t \notin transactions \/ t \notin transactions'
             \/ \E p \in RefersTo(party).payments :
                   p \notin payments \/ p \notin payments'
             \/ \E st \in RefersTo(party).statements :
                   st \notin customer_statements \/ st \notin customer_statements']_vars

\* cash the payments of sale s put into drawer key k
SaleCashIn(s, k) ==
    SumOver([p \in {x \in SalePayments(payments, s.id) :
                       x.cash_drawer = k[1] /\ x.currency = k[2]} |-> p.amount],
            {x \in SalePayments(payments, s.id) :
                x.cash_drawer = k[1] /\ x.currency = k[2]})

\* C15: deleting a sale takes out of each drawer what the sale's payments
\* put into it: a delete request for a sale removes the sale and lowers every
\* (drawer, currency) balance by the sale's payments into it.
SaleDeleteReversesCash ==
    [][\A s \in sales :
          DestroySale(s)
          => /\ s \notin sales'
             /\ \A k \in DrawerKeys :
                   DrawerAmount(cash_drawer_money', k)
                   = DrawerAmount(cash_drawer_money, k) - SaleCashIn(s, k)]_vars

\* ================================== two requests served at the same time
\* Each request runs its handler statement by statement in a database
\* transaction at READ COMMITTED: its writes stay in wr[p], unseen by the
\* other request, until it commits; an UPDATE or INSERT of a row another open
\* transaction has written waits for that transaction to end.

AtomicExceptSale(kind) == kind \in {"transaction", "expense", "purchase"}

\* transaction.atomic wraps the handler of the request kind
IsAtomic(kind) == kind \in {"transaction", "expense", "sale", "purchase"}

\* the statements of a handler that touch the ledger, in program order
Program(r) ==
    IF r.kind = "transaction"
    THEN <<"read_party", "ins_rows", "read_drawer", "write_drawer", "write_party", "commit">>
    ELSE IF r.kind = "expense"
    THEN <<"ins_rows", "read_drawer", "write_drawer", "commit">>
    ELSE IF r.kind = "sale"
    THEN <<"ins_rows", "read_drawer", "write_drawer", "read_party", "write_party",
           "ins_loan", "commit">>
    ELSE IF r.method = "cash"
    THEN <<"read_party", "ins_rows", "read_drawer", "write_drawer", "commit">>
    ELSE <<"read_party", "ins_rows", "write_party", "commit">>

Op(p) == IF pc[p] = "running" THEN Program(req[p])[rd[p].at] ELSE "none"

DrawerKey(r) == <<r.cash_drawer, r.currency>>

\* what the handler adds to the CashDrawerMoney amount it read
DrawerDelta(r) ==
    IF r.kind = "transaction" THEN SignedAmount(type_map(r.transaction_type), r.amount)
    ELSE IF r.kind = "sale" THEN r.amount
    ELSE -r.amount

\* the sale's balance due once its payment is recorded
SaleRemaining(r) ==
    RemainingPayment(r.total,
        {PaymentRow(NoId, now, r.amount, r.currency, "sale", NoId, r.cash_drawer)},
        r.currency)

\* what the handler adds to the party balance it read
PartyDelta(r) ==
    IF r.kind = "transaction"
    THEN convert_to_base_currency(
            SignedAmount(type_map(r.transaction_type), r.amount), r.currency)
    ELSE IF r.kind = "sale" THEN -convert_to_base_currency(SaleRemaining(r), r.currency)
    ELSE convert_to_base_currency(r.total, r.currency)

MovesDrawer(r) == "write_drawer" \in {Program(r)[i] : i \in 1..Len(Program(r))}
MovesParty(r) == "write_party" \in {Program(r)[i] : i \in 1..Len(Program(r))}

\* the rows the handler inserts before it touches a balance
InsertedRows(r, id) ==
    IF r.kind = "transaction"
    THEN [NoWrites EXCEPT
            !.transactions = {TransactionRow(id, now, r.amount, r.currency, r.party[1],
                                 r.party[2], type_map(r.transaction_type), "other", NoId,
                                 r.cash_drawer, TRUE)},
            !.payments = {PaymentRow(id + 1, now, r.amount, r.currency, r.party[1] \o "s",
                                     r.party[2], r.cash_drawer)}]
    ELSE IF r.kind = "expense"
    THEN [NoWrites EXCEPT
            !.expenses = {[id |-> id, amount |-> r.amount, currency |-> r.currency,
                           cash_drawer |-> r.cash_drawer, expense_date |-> now,
                           expense_time |-> 1]},
            !.transactions = {TransactionRow(id + 1, now, r.amount, r.currency, "other", NoId,
                                 "expense", "expense", id, r.cash_drawer, FALSE)},
            !.payments = {PaymentRow(id + 2, now, r.amount, r.currency, "expense", id,
                                     r.cash_drawer)}]
    ELSE IF r.kind = "sale"
    THEN LET m == MakePaymentRows(<<r>>, 1, id, r.party[2], id + 1)
         IN  [NoWrites EXCEPT
                !.sales = {[id |-> id, customer |-> r.party[2], total_amount |-> r.total,
                            currency |-> r.currency, sale_date |-> now]},
                !.payments = {m.payment},
                !.transactions = {m.transaction},
                !.customer_statements = {m.statement}]
    ELSE [NoWrites EXCEPT
            !.purchases = {[id |-> id, vendor |-> r.party[2], total_amount |-> r.total,
                            currency |-> r.currency, status |-> "pending",
                            purchase_date |-> now]},
            !.payments = IF r.method = "cash"
                         THEN {PaymentRow(id + 1, now, r.amount, r.currency, "purchase", id,
                                          r.cash_drawer)}
                         ELSE {},
            !.transactions = IF r.method = "cash"
                         THEN {TransactionRow(id + 2, now, r.amount, r.currency, "vendor",
                                  r.party[2], "expense", "purchase", id, r.cash_drawer, FALSE)}
                         ELSE {}]

Merge(f, g) == [k \in DOMAIN f \cup DOMAIN g |-> IF k \in DOMAIN g THEN g[k] ELSE f[k]]

Advance(p) == rd' = [rd EXCEPT ![p].at = @ + 1]

Others == <<now, currency_rates, is_base_currency, tenancy, product_prices, price_set, lookup, exchange_rate_cache,
           response>>

\* a request arrives and its handler starts
Start(p, r) ==
    /\ pc[p] = "idle"
    /\ events < MaxEvents
    /\ events' = events + 1
    /\ pc' = [pc EXCEPT ![p] = "running"]
    /\ req' = [req EXCEPT ![p] = r]
    /\ rd' = [rd EXCEPT ![p] = [NoReads EXCEPT !.at = 1]]
    /\ UNCHANGED <<next_id, ledger, docs, wr, Others>>

\* the party object is loaded (get_party_object, sale.customer, purchase.vendor)
ReadParty(p) ==
    /\ Op(p) = "read_party"
    /\ rd' = [rd EXCEPT ![p].party = balance[req[p].party], ![p].at = @ + 1]
    /\ UNCHANGED <<next_id, ledger, docs, pc, req, wr, events, Others>>

\* the document, Transaction, Payment and statement rows are inserted
InsRows(p) ==
    /\ Op(p) = "ins_rows"
    /\ wr' = [wr EXCEPT ![p] = InsertedRows(req[p], next_id)]
    /\ next_id' = next_id + 4
    /\ rd' = [rd EXCEPT ![p].ids = next_id..(next_id + 3), ![p].at = @ + 1]
    /\ UNCHANGED <<ledger, docs, pc, req, events, Others>>

\* CashDrawerMoney.objects.get_or_create(cash_drawer, currency)
ReadDrawer(p) ==
    /\ Op(p) = "read_drawer"
    /\ IF DrawerKey(req[p]) \in DOMAIN cash_drawer_money
       THEN /\ rd' = [rd EXCEPT ![p].drawer = cash_drawer_money[DrawerKey(req[p])],
                                ![p].at = @ + 1]
            /\ UNCHANGED wr
       ELSE /\ \A q \in Procs \ {p} : DrawerKey(req[p]) \notin DOMAIN wr[q].cash_drawer_money
            /\ wr' = [wr EXCEPT ![p].cash_drawer_money = Merge(@, [k \in {DrawerKey(req[p])} |-> 0])]
            /\ rd' = [rd EXCEPT ![p].drawer = 0, ![p].at = @ + 1]
    /\ UNCHANGED <<next_id, ledger, docs, pc, req, events, Others>>

\* drawer_money.amount += amount; drawer_money.save()
WriteDrawer(p) ==
    /\ Op(p) = "write_drawer"
    /\ \A q \in Procs \ {p} : DrawerKey(req[p]) \notin DOMAIN wr[q].cash_drawer_money
    /\ wr' = [wr EXCEPT ![p].cash_drawer_money =
                 Merge(@, [k \in {DrawerKey(req[p])} |-> rd[p].drawer + DrawerDelta(req[p])])]
    /\ Advance(p)
    /\ UNCHANGED <<next_id, ledger, docs, pc, req, events, Others>>

\* party.balance += amount; party.save()
WriteParty(p) ==
    /\ Op(p) = "write_party"
    /\ \A q \in Procs \ {p} : req[p].party \notin DOMAIN wr[q].balance
    /\ wr' = [wr EXCEPT ![p].balance =
                 Merge(@, [k \in {req[p].party} |-> rd[p].party + PartyDelta(req[p])])]
    /\ Advance(p)
    /\ UNCHANGED <<next_id, ledger, docs, pc, req, events, Others>>

\* the loan statement of _add_to_customer_account
InsLoan(p) ==
    /\ Op(p) = "ins_loan"
    /\ wr' = [wr EXCEPT ![p].customer_statements = @ \cup
                 {StatementRow(next_id, now, req[p].party[2], SaleRemaining(req[p]),
                               req[p].currency, "loan",
                               (CHOOSE x \in wr[p].sales : TRUE).id, NoneVal)}]
    /\ next_id' = next_id + 1
    /\ rd' = [rd EXCEPT ![p].ids = @ \cup {next_id}, ![p].at = @ + 1]
    /\ UNCHANGED <<ledger, docs, pc, req, events, Others>>

\* the tables once the writes of w stand committed
Applied(w) ==
    /\ transactions' = transactions \cup w.transactions
    /\ payments' = payments \cup w.payments
    /\ customer_statements' = customer_statements \cup w.customer_statements
    /\ sales' = sales \cup w.sales
    /\ expenses' = expenses \cup w.expenses
    /\ purchases' = purchases \cup w.purchases
    /\ cash_drawer_money' = Merge(cash_drawer_money, w.cash_drawer_money)
    /\ balance' = Merge(balance, w.balance)

\* the handler returns and the transaction commits
Commit(p) ==
    /\ Op(p) = "commit"
    /\ Applied(wr[p])
    /\ wr' = [wr EXCEPT ![p] = NoWrites]
    /\ pc' = [pc EXCEPT ![p] = "done"]
    /\ UNCHANGED <<next_id, req, rd, events, Others>>

\* an exception leaves the handler: inside transaction.atomic the writes
\* made so far are rolled back, outside it they would stand
Fail(p) ==
    /\ pc[p] = "running"
    /\ IF IsAtomic(req[p].kind) THEN UNCHANGED <<ledger, docs>> ELSE Applied(wr[p])
    /\ wr' = [wr EXCEPT ![p] = NoWrites]
    /\ pc' = [pc EXCEPT ![p] = "failed"]
    /\ UNCHANGED <<next_id, req, rd, events, Others>>

ConcRequests ==
    {[kind |-> "transaction", transaction_type |-> tt, party |-> party, amount |-> 1,
      total |-> 0, currency |-> "USD", cash_drawer |-> "D1", method |-> "cash",
      variant |-> NoneVal, price |-> NoPrice] :
        tt \in TransactionKinds, party \in Parties}
    \cup {[kind |-> "expense", transaction_type |-> NoneVal, party |-> <<NoneVal, 0>>,
           amount |-> 2, total |-> 0, currency |-> c, cash_drawer |-> "D1",
           method |-> "cash", variant |-> NoneVal, price |-> NoPrice] : c \in Currencies}
    \cup {[kind |-> "sale", transaction_type |-> NoneVal, party |-> cu, amount |-> 1,
           total |-> 2, currency |-> "USD", cash_drawer |-> "D1", method |-> "cash",
           variant |-> NoneVal, price |-> NoPrice] :
             cu \in Customers}
    \cup {[kind |-> "purchase", transaction_type |-> NoneVal, party |-> v, amount |-> 2,
           total |-> 2, currency |-> "USD", cash_drawer |-> "D1", method |-> m,
           variant |-> NoneVal, price |-> NoPrice] :
             v \in Vendors, m \in {"cash", "loan"}}

NextConc ==
    \/ \E p \in Procs, r \in ConcRequests : Start(p, r)
    \/ \E p \in Procs : ReadParty(p)
    \/ \E p \in Procs : InsRows(p)
    \/ \E p \in Procs : ReadDrawer(p)
    \/ \E p \in Procs : WriteDrawer(p)
    \/ \E p \in Procs : WriteParty(p)
    \/ \E p \in Procs : InsLoan(p)
    \/ \E p \in Procs : Commit(p)
    \/ \E p \in Procs : Fail(p)

SpecConc == Init /\ [][NextConc]_vars

Quiet == \A p \in Procs : pc[p] # "running"

Committed == {p \in Procs : pc[p] = "done"}

NoLostDrawerUpdate ==
    Quiet => \A k \in DrawerKeys :
        DrawerAmount(cash_drawer_money, k)
        = SumOver([p \in Procs |->
                      IF p \in Committed /\ MovesDrawer(req[p]) /\ DrawerKey(req[p]) = k
                      THEN DrawerDelta(req[p]) ELSE 0], Procs)

\* C3: when two requests change the balance of the same party at the same
\* time, the party ends with its starting balance plus both changes.
NoLostBalanceUpdate ==
    Quiet => \A party \in Parties :
        balance[party]
        = SumOver([p \in Procs |->
                      IF p \in Committed /\ MovesParty(req[p]) /\ req[p].party = party
                      THEN PartyDelta(req[p]) ELSE 0], Procs)

\* ============================ two ProductPrice saves served at the same time
\* the ProductPrice rows request p sees: the committed rows with its own
\* uncommitted writes laid over them
VisiblePrices(p) ==
    {r \in product_prices : r.id \notin Ids(wr[p].price_rows)} \cup wr[p].price_rows

\* rows another open transaction has written and still holds locked
LockedPrices(p) == UNION {Ids(wr[q].price_rows) : q \in Procs \ {p}}

SaveProgram ==
    <<"select_last", "update_snapshot", "update_apply", "update_end_date", "insert", "commit">>

SaveOp(p) == IF pc[p] = "saving" THEN SaveProgram[rd[p].at] ELSE "none"

\* a request that sets the current price of a variant starts ProductPrice.save
StartSave(p, variant, f) ==
    /\ pc[p] \in {"idle", "done"}
    /\ events < MaxPriceSaves
    /\ events' = events + 1
    /\ pc' = [pc EXCEPT ![p] = "saving"]
    /\ req' = [req EXCEPT ![p] = [NoRequest EXCEPT !.kind = "price", !.variant = variant,
                                                   !.price = f]]
    /\ rd' = [rd EXCEPT ![p] = [NoReads EXCEPT !.at = 1]]
    /\ UNCHANGED <<now, next_id, ledger, docs, currency_rates, is_base_currency, tenancy, product_prices, price_set,
                   lookup, exchange_rate_cache, response, wr>>

UnsavedPrice(p) ==
    PriceRow(NoId, req[p].variant, req[p].price.cost_price, req[p].price.cost_currency,
             req[p].price.selling_price, req[p].price.selling_currency, TRUE)

\* last_current = current_prices.last() and the inheritance of missing fields
SelectLast(p) ==
    /\ SaveOp(p) = "select_last"
    /\ rd' = [rd EXCEPT ![p].self = {price_to_save(VisiblePrices(p), UnsavedPrice(p))},
                        ![p].at = @ + 1]
    /\ UNCHANGED <<now, next_id, ledger, docs, currency_rates, is_base_currency, tenancy, product_prices, price_set,
                   lookup, exchange_rate_cache, response, events, pc, req, wr>>

\* current_prices.update(is_current=False): the statement picks its rows
UpdateSnapshot(p) ==
    /\ SaveOp(p) = "update_snapshot"
    /\ rd' = [rd EXCEPT ![p].targets = Ids(current_prices(VisiblePrices(p), UnsavedPrice(p))),
                        ![p].at = @ + 1]
    /\ UNCHANGED <<now, next_id, ledger, docs, currency_rates, is_base_currency, tenancy, product_prices, price_set,
                   lookup, exchange_rate_cache, response, events, pc, req, wr>>

\* ... and writes them, once no other transaction holds one of them; a row
\* that stopped matching in the meantime is skipped
UpdateApply(p) ==
    /\ SaveOp(p) = "update_apply"
    /\ rd[p].targets \cap LockedPrices(p) = {}
    /\ wr' = [wr EXCEPT ![p].price_rows =
                 {r \in @ : r.id \notin rd[p].targets} \cup
                 {[r EXCEPT !.is_current = FALSE] :
                    r \in {x \in VisiblePrices(p) : x.id \in rd[p].targets /\ x.is_current}}]
    /\ Advance(p)
    /\ UNCHANGED <<now, next_id, ledger, docs, currency_rates, is_base_currency, tenancy, product_prices, price_set,
                   lookup, exchange_rate_cache, response, events, pc, req>>

\* current_prices.filter(end_date__isnull=True).update(end_date=now())
UpdateEndDate(p) ==
    /\ SaveOp(p) = "update_end_date"
    /\ LET hit == {r \in current_prices(VisiblePrices(p), UnsavedPrice(p)) :
                      r.end_date = NoDate}
       IN  /\ Ids(hit) \cap LockedPrices(p) = {}
           /\ wr' = [wr EXCEPT ![p].price_rows =
                        {r \in @ : r.id \notin Ids(hit)} \cup
                        {[r EXCEPT !.end_date = now] : r \in hit}]
    /\ Advance(p)
    /\ UNCHANGED <<now, next_id, ledger, docs, currency_rates, is_base_currency, tenancy, product_prices, price_set,
                   lookup, exchange_rate_cache, response, events, pc, req>>

\* super().save(): the new row is inserted
InsertPrice(p) ==
    /\ SaveOp(p) = "insert"
    /\ IF \E r \in rd[p].self : PriceRowValid(r)
       THEN /\ wr' = [wr EXCEPT ![p].price_rows = @ \cup
                        {[r EXCEPT !.id = next_id, !.effective_date = now] : r \in rd[p].self}]
            /\ next_id' = next_id + 1
            /\ Advance(p)
            /\ UNCHANGED pc
       ELSE /\ wr' = [wr EXCEPT ![p] = NoWrites]
            /\ pc' = [pc EXCEPT ![p] = "done"]
            /\ UNCHANGED <<next_id, rd>>
    /\ UNCHANGED <<now, ledger, docs, currency_rates, is_base_currency, tenancy, product_prices, price_set,
                   lookup, exchange_rate_cache, response, events, req>>

CommitSave(p) ==
    /\ SaveOp(p) = "commit"
    /\ product_prices' = VisiblePrices(p)
    /\ price_set' = price_set \cup {req[p].variant}
    /\ wr' = [wr EXCEPT ![p] = NoWrites]
    /\ pc' = [pc EXCEPT ![p] = "done"]
    /\ UNCHANGED <<now, next_id, ledger, docs, currency_rates, is_base_currency, tenancy, lookup, exchange_rate_cache, response,
                   events, req, rd>>

NextPriceConc ==
    \/ \E p \in Procs, v \in Variants, f \in PriceInputs : StartSave(p, v, f)
    \/ \E p \in Procs : SelectLast(p)
    \/ \E p \in Procs : UpdateSnapshot(p)
    \/ \E p \in Procs : UpdateApply(p)
    \/ \E p \in Procs : UpdateEndDate(p)
    \/ \E p \in Procs : InsertPrice(p)
    \/ \E p \in Procs : CommitSave(p)

SpecPriceConc == Init /\ [][NextPriceConc]_vars

\* C6: two ProductPrice saves for the same variant that interleave never
\* leave the variant with two rows marked current.
AtMostOneCurrentPrice ==
    \A v \in Variants : Cardinality(CurrentRows(v)) <= 1

\* ===================== events in a currency that has no exchange rate yet
\* the tenant's base currency has a rate row; the other currency has none
InitNoRate ==
    /\ now = 0
    /\ next_id = 1
    /\ transactions = {}
    /\ payments = {}
    /\ customer_statements = {}
    /\ cash_drawer_money = [k \in {<<"D1", "USD">>} |-> 0]
    /\ balance = [p \in Parties |-> 0]
    /\ sales = {}
    /\ expenses = {}
    /\ purchases = {}
    /\ currency_rates = {[currency |-> "USD", rate |-> 100, effective_date |-> 0]}
    /\ is_base_currency = [c \in Currencies |-> c = get_base_currency]
    /\ tenants = {}
    /\ current_tenant = NoId
    /\ tenant_rows = {}
    /\ product_prices = {}
    /\ price_set = {}
    /\ lookup = [currency |-> NoneVal, target_date |-> 0, rate |-> 0]
    /\ exchange_rate_cache = [k \in {} |-> 0]
    /\ response = "none"
    /\ events = 0
    /\ pc = [p \in Procs |-> "idle"]
    /\ req = [p \in Procs |-> NoRequest]
    /\ rd = [p \in Procs |-> NoReads]
    /\ wr = [p \in Procs |-> NoWrites]

NextNoRate ==
    \/ \E tt \in TransactionKinds, party \in Parties, a \in Amounts,
          c \in Currencies, d \in Drawers : CreateTransaction(tt, party, a, c, d)
    \/ \E cu \in Customers, a \in Amounts, c \in Currencies, st \in StatementTypes,
          d \in Drawers \cup {NoneVal} : CreateStatement(cu, a, c, st, d)
    \/ \E cu \in {NoId, 1}, tot \in SaleTotals, c \in Currencies, sd \in {now},
          ps \in SalePaymentLists : CreateSale(cu, tot, c, sd, ps)

SpecNoRate == InitNoRate /\ [][NextNoRate]_vars

\* C12: converting to the base currency from a currency with no recorded
\* rate never raises to the caller: no sale with an unpaid balance, customer
\* statement or direct transaction ends in an error.
ConversionNeverRaises == response # "error"

\* ================== sales of a customer while exchange rates are recorded
\* a sale on credit, or with one payment in the sale's currency
RatedSalePayments ==
    {<<>>} \cup {<<[amount |-> 1, currency |-> c, cash_drawer |-> d]>> :
                    c \in Currencies \ {get_base_currency}, d \in Drawers}

NextSaleRates ==
    \/ \E c \in Currencies \ {get_base_currency}, r \in RateValues, d \in Times :
          RecordRate(c, r, d)
    \/ Tick
    \/ \E cu \in Customers, tot \in SaleTotals, c \in Currencies \ {get_base_currency},
          sd \in 0..now, ps \in RatedSalePayments : CreateSale(cu[2], tot, c, sd, ps)
    \/ \E s \in sales : DestroySale(s)
    \/ \E s \in sales, tot \in NewSaleTotals : UpdateSale(s, tot)

SpecSaleRates == InitRate /\ [][NextSaleRates]_vars

LoansOf(sale_id) ==
    {l \in customer_statements' : l.sale = sale_id /\ l.statement_type = "loan"}

RECURSIVE ProductOf(_)
ProductOf(S) ==
    IF S = {} THEN 1
    ELSE LET x == CHOOSE y \in S : TRUE IN x * ProductOf(S \ {x})

ReportDen == ProductOf(RateValues)

\* the values a sum of one value per element of S may take, f[x] being the
\* set of values the term of x may take
RECURSIVE SumsOver(_, _)
SumsOver(f, S) ==
    IF S = {} THEN {0}
    ELSE LET x == CHOOSE y \in S : TRUE
         IN  {a + b : a \in f[x], b \in SumsOver(f, S \ {x})}

\* the SaleItem rows of a set of sales: each sale sells one unit of V1
SaleItemsOf(S) ==
    {[sale |-> s, variant |-> "V1", quantity |-> 1, line_total |-> s.total_amount] :
        s \in S}

\* amount / rate for the rate the report picks: the row with the greatest
\* effective_date <= event_date, else Currency.exchange_rate, else no division
report_to_base(amount, currency, event_date) ==
    IF currency = get_base_currency THEN {amount * ReportDen}
    ELSE LET rows == rate_objs(currency, event_date)
         IN  IF rows # {}
             THEN {amount * RateScale * (ReportDen \div r.rate) :
                      r \in first_by_effective_date_desc(rows)}
             ELSE IF exchange_rate(currency) # NoRate
             THEN {amount * RateScale * (ReportDen \div exchange_rate(currency))}
             ELSE {amount * ReportDen}

\* MonthlyReportViewSet._calculate_daily_sales
daily_sales(target_date) ==
    LET day == {s \in sales : s.sale_date = target_date}
    IN  SumsOver([s \in day |-> report_to_base(s.total_amount, s.currency, s.sale_date)],
                 day)

\* MonthlyReportViewSet._calculate_daily_expenses: filter(expense_date=
\* target_date) compares the DateTimeField with the date at midnight
daily_expenses(target_date) ==
    LET day == {e \in expenses : e.expense_date = target_date /\ e.expense_time = 0}
    IN  SumsOver([e \in day |-> report_to_base(e.amount, e.currency, e.expense_date)],
                 day)

\* ProductPrice rows .filter(variant, effective_date__lte=sale_date)
\* .order_by('-effective_date').first() may return
price_on(variant, sale_date) ==
    first_by_effective_date_desc(
        {r \in product_prices : r.variant = variant /\ r.effective_date <= sale_date})

\* the cost of one sale item in the base currency; an item without a price
\* row adds nothing
item_cost(item) ==
    IF price_on(item.variant, item.sale.sale_date) = {} THEN {0}
    ELSE UNION {report_to_base(pp.cost_price * item.quantity, pp.cost_currency,
                               item.sale.sale_date) :
                   pp \in price_on(item.variant, item.sale.sale_date)}

\* MonthlyReportViewSet._calculate_daily_cost
daily_cost(target_date) ==
    LET items == SaleItemsOf({s \in sales : s.sale_date = target_date})
    IN  SumsOver([i \in items |-> item_cost(i)], items)

\* cost prices in either currency, always with every field given
ReportPriceInputs ==
    {[cost_price |-> cp, cost_currency |-> c, selling_price |-> 7,
      selling_currency |-> "USD"] : cp \in {1, 2}, c \in Currencies}

NextReport ==
    \/ \E c \in Currencies \ {get_base_currency}, r \in RateValues, d \in Times :
          RecordRate(c, r, d)
    \/ Tick
    \/ \E tot \in SaleTotals, c \in Currencies, sd \in 0..now :
          CreateSale(NoId, tot, c, sd, <<>>)
    \/ \E c \in Currencies, d \in Drawers : CreateExpense(1, c, d)
    \/ \E f \in ReportPriceInputs : CreateProductPrice("V1", f, TRUE)

SpecReport == InitRate /\ [][NextReport]_vars

department_price(item) ==
    first_by_effective_date_desc(
        {r \in product_prices : r.variant = item.variant /\ r.is_current})

\* QuickReportViewSet.summary, sales summary: the rows kept by
\* Q(effective_date__lte=sale_date) | (Q(end_date__gte=sale_date) &
\* Q(end_date__isnull=True)); the second branch matches no row
summary_price(item) ==
    first_by_effective_date_desc(
        {r \in product_prices :
            /\ r.variant = item.variant
            /\ \/ r.effective_date <= item.sale.sale_date
               \/ (r.end_date # NoDate /\ r.end_date >= item.sale.sale_date
                      /\ r.end_date = NoDate)})

\* the cost prices a set of candidate rows stands for
CostPrices(rows) == {r.cost_price : r \in rows}

\* C17: in the quick summary (department report and sales summary) and in the
\* monthly and yearly reports, the cost of a sold item is the cost price of
\* the ProductPrice row with the greatest effective_date at or before the
\* sale's date.
CostTakenFromPriceOfSaleDate ==
    \A i \in SaleItemsOf(sales) :
        price_on(i.variant, i.sale.sale_date) # {}
        => /\ department_price(i) # {}
           /\ CostPrices(department_price(i)) \subseteq
                 CostPrices(price_on(i.variant, i.sale.sale_date))
           /\ summary_price(i) # {}
           /\ CostPrices(summary_price(i)) \subseteq
                 CostPrices(price_on(i.variant, i.sale.sale_date))

\* ================================ Currency saves served at the same time
\* Currency.save run alone: the flags of the table after the save
save_currency(flags, c, is_base) ==
    [k \in Currencies |->
        IF k = c THEN is_base
        ELSE IF is_base THEN FALSE ELSE flags[k]]

\* the flags request p sees: the committed rows with its own uncommitted
\* writes laid over them
VisibleBase(p) == Merge(is_base_currency, wr[p].is_base_currency)

\* rows another open transaction has written and still holds locked
LockedCurrencies(p) == UNION {DOMAIN wr[q].is_base_currency : q \in Procs \ {p}}

\* the statements of Currency.save, by the value of self.is_base_currency
CurrencyProgram(is_base) ==
    IF is_base THEN <<"update_snapshot", "update_apply", "save", "commit">>
    ELSE <<"save", "commit">>

CurrencyOp(p) ==
    IF pc[p] = "saving_currency"
    THEN CurrencyProgram(req[p].is_base_currency)[rd[p].at]
    ELSE "none"

\* a request saves a Currency row (admin change form, Currency.objects.create)
StartCurrencySave(p, c, is_base) ==
    /\ pc[p] \in {"idle", "done"}
    /\ events < MaxPriceSaves
    /\ events' = events + 1
    /\ pc' = [pc EXCEPT ![p] = "saving_currency"]
    /\ req' = [req EXCEPT ![p] = [NoRequest EXCEPT !.kind = "currency", !.currency = c,
                                                   !.is_base_currency = is_base]]
    /\ rd' = [rd EXCEPT ![p] = [NoReads EXCEPT !.at = 1]]
    /\ UNCHANGED <<now, next_id, ledger, docs, currency_rates, is_base_currency, tenancy,
                   product_prices, price_set, lookup, exchange_rate_cache, response, wr>>

\* filter(tenant, is_base_currency=True).update(is_base_currency=False): the
\* statement picks its rows
ClearBaseSnapshot(p) ==
    /\ CurrencyOp(p) = "update_snapshot"
    /\ rd' = [rd EXCEPT ![p].targets = {k \in Currencies : VisibleBase(p)[k]},
                        ![p].at = @ + 1]
    /\ UNCHANGED <<now, next_id, ledger, docs, currency_rates, is_base_currency, tenancy,
                   product_prices, price_set, lookup, exchange_rate_cache, response, events, pc, req, wr>>

\* ... and writes them, once no other transaction holds one of them; a row
\* that stopped matching in the meantime is skipped
ClearBaseApply(p) ==
    /\ CurrencyOp(p) = "update_apply"
    /\ rd[p].targets \cap LockedCurrencies(p) = {}
    /\ wr' = [wr EXCEPT ![p].is_base_currency =
                 Merge(@, [k \in {x \in rd[p].targets : VisibleBase(p)[x]} |-> FALSE])]
    /\ Advance(p)
    /\ UNCHANGED <<now, next_id, ledger, docs, currency_rates, is_base_currency, tenancy,
                   product_prices, price_set, lookup, exchange_rate_cache, response, events, pc, req>>

\* super().save(): the row of self is written with its flag
SaveCurrencyRow(p) ==
    /\ CurrencyOp(p) = "save"
    /\ req[p].currency \notin LockedCurrencies(p)
    /\ wr' = [wr EXCEPT ![p].is_base_currency =
                 Merge(@, [k \in {req[p].currency} |-> req[p].is_base_currency])]
    /\ Advance(p)
    /\ UNCHANGED <<now, next_id, ledger, docs, currency_rates, is_base_currency, tenancy,
                   product_prices, price_set, lookup, exchange_rate_cache, response, events, pc, req>>

CommitCurrency(p) ==
    /\ CurrencyOp(p) = "commit"
    /\ is_base_currency' = VisibleBase(p)
    /\ wr' = [wr EXCEPT ![p] = NoWrites]
    /\ pc' = [pc EXCEPT ![p] = "done"]
    /\ UNCHANGED <<tenancy, now, next_id, ledger, docs, currency_rates, product_prices,
                   price_set, lookup, exchange_rate_cache, response, events, req, rd>>

NextCurrencyConc ==
    \/ \E p \in Procs, c \in Currencies, b \in BOOLEAN : StartCurrencySave(p, c, b)
    \/ \E p \in Procs : ClearBaseSnapshot(p)
    \/ \E p \in Procs : ClearBaseApply(p)
    \/ \E p \in Procs : SaveCurrencyRow(p)
    \/ \E p \in Procs : CommitCurrency(p)

SpecCurrencyConc == Init /\ [][NextCurrencyConc]_vars

\* C18: at most one currency of the tenant has is_base_currency true, also
\* after two saves that mark different currencies as base have interleaved.
AtMostOneBaseCurrency ==
    Cardinality({c \in Currencies : is_base_currency[c]}) <= 1

\* ===================================== conversions between two currencies
\* Currency.convert_to of an amount that is itself a fraction (the Decimal a
\* previous conversion returned)
convert_fraction(f, from_currency, to_currency) ==
    LET r == convert_to(f[1], from_currency, to_currency)
    IN  <<r[1], r[2] * f[2]>>

NoConversion ==
    [kind |-> "none", amount |-> 0, from_currency |-> NoneVal, to_currency |-> NoneVal,
     there |-> <<0, 1>>, back |-> <<0, 1>>, rates |-> {}, rates_kept |-> FALSE]

\* A.convert_to(x, B)
ConvertThere(x, a, b) ==
    /\ lookup' = [NoConversion EXCEPT !.kind = "there", !.amount = x,
                                      !.from_currency = a, !.to_currency = b,
                                      !.there = convert_to(x, a, b),
                                      !.rates = currency_rates]
    /\ UNCHANGED <<now, next_id, ledger, docs, currency_rates, is_base_currency, tenancy,
                   product_prices, price_set, exchange_rate_cache, response, events, threads>>

\* B.convert_to(result, A), with the result of the conversion before
ConvertBack ==
    /\ lookup.kind = "there"
    /\ lookup' = [lookup EXCEPT
                     !.kind = "back",
                     !.back = convert_fraction(lookup.there, lookup.to_currency,
                                               lookup.from_currency),
                     !.rates_kept = (lookup.rates = currency_rates)]
    /\ UNCHANGED <<now, next_id, ledger, docs, currency_rates, is_base_currency, tenancy,
                   product_prices, price_set, exchange_rate_cache, response, events, threads>>

InitConvert ==
    /\ now = 0
    /\ next_id = 1
    /\ transactions = {}
    /\ payments = {}
    /\ customer_statements = {}
    /\ cash_drawer_money = [k \in {<<"D1", "USD">>} |-> 0]
    /\ balance = [p \in Parties |-> 0]
    /\ sales = {}
    /\ expenses = {}
    /\ purchases = {}
    /\ currency_rates = {}
    /\ is_base_currency = [c \in Currencies |-> c = get_base_currency]
    /\ tenants = {}
    /\ current_tenant = NoId
    /\ tenant_rows = {}
    /\ product_prices = {}
    /\ price_set = {}
    /\ lookup = NoConversion
    /\ exchange_rate_cache = [k \in {} |-> 0]
    /\ response = "none"
    /\ events = 0
    /\ pc = [p \in Procs |-> "idle"]
    /\ req = [p \in Procs |-> NoRequest]
    /\ rd = [p \in Procs |-> NoReads]
    /\ wr = [p \in Procs |-> NoWrites]

NextConvert ==
    \/ \E c \in Currencies, r \in RateValues, d \in Times : RecordRate(c, r, d)
    \/ \E x \in Amounts, a \in Currencies, b \in Currencies : ConvertThere(x, a, b)
    \/ ConvertBack

SpecConvert == InitConvert /\ [][NextConvert]_vars

\* C19: an amount converted from A to B with convert_to and the result
\* converted back from B to A, both currencies having a rate and no rate
\* recorded between the two conversions, comes back as the amount it was, to
\* within a hundredth of a minor unit.
ConvertRoundTrip ==
    (/\ lookup.kind = "back"
     /\ lookup.rates_kept
     /\ RatesOf(lookup.from_currency) # {}
     /\ RatesOf(lookup.to_currency) # {})
    => Abs(lookup.back[1] - lookup.amount * lookup.back[2]) * 100 <= lookup.back[2]

\* 0.02 EUR converted to USD at EUR 0.90, USD 0.95 and back
ConvertedThereAndBack ==
    /\ lookup.kind = "back"
    /\ lookup.rates_kept
    /\ lookup.amount = 2
    /\ lookup.from_currency = "EUR"
    /\ lookup.to_currency = "USD"
    /\ exchange_rate("EUR") = 90
    /\ exchange_rate("USD") = 95
    /\ lookup.there = <<190, 90>>

\* ======================================================= tenant in scope
TenantTables == {"currencies", "payments"}
Hosts == {"localhost", "shop.example"}

\* TenantManager.get_queryset of one table for the thread's tenant
get_queryset(table) ==
    LET queryset == {r \in tenant_rows : r.table = table}
    IN  IF current_tenant # NoId
        THEN {r \in queryset : r.tenant = current_tenant}
        ELSE queryset

\* a payment number PAY-<date>-<seq> as <<date, seq>>; the sequences modelled
\* stay below 10000, where the order of the strings is the order of the numbers
NoNumber == <<NoDate, 0>>

\* Payment.generate_payment_number for the thread's tenant at the time now
generate_payment_number ==
    LET date_str == now
        todays == {r \in get_queryset("payments") :
                      r.tenant = current_tenant /\ r.payment_number[1] = date_str}
        new_seq == IF todays # {}
                   THEN Max({r.payment_number[2] : r \in todays}) + 1
                   ELSE 1
    IN  <<date_str, new_seq>>

\* the payment_number values the unique column holds, all tenants together
PaymentNumbers == {r.payment_number : r \in {x \in tenant_rows : x.table = "payments"}}

\* create_new_tenant: a Tenant row and its currency
CreateTenant ==
    /\ response # "serving"
    /\ next_id <= 2 * MaxEvents
    /\ tenants' = tenants \cup {next_id}
    /\ tenant_rows' = tenant_rows \cup
          {[table |-> "currencies", tenant |-> next_id, id |-> next_id + 1,
            payment_number |-> NoNumber]}
    /\ next_id' = next_id + 2
    /\ UNCHANGED <<now, ledger, docs, currency_rates, is_base_currency, current_tenant,
                   product_prices, price_set, lookup, exchange_rate_cache, response, events, threads>>

\* a Tenant row is deleted in the admin; its rows go with it (CASCADE)
DeleteTenant(t) ==
    /\ response # "serving"
    /\ t \in tenants
    /\ tenants' = tenants \ {t}
    /\ tenant_rows' = {r \in tenant_rows : r.tenant # t}
    /\ UNCHANGED <<now, next_id, ledger, docs, currency_rates, is_base_currency,
                   current_tenant, product_prices, price_set, lookup, exchange_rate_cache, response,
                   events, threads>>

\* TenantMiddleware.process_request: header is the X-Tenant-ID value, domain
\* the tenant whose domain the first path segment names (NoId: none)
process_request(header, host, domain) ==
    /\ response # "serving"
    /\ IF header # NoId /\ header \notin tenants
       THEN /\ response' = "rejected"
            /\ current_tenant' = NoId
       ELSE IF header = NoId /\ domain \notin tenants /\ host # "localhost"
       THEN /\ response' = "rejected"
            /\ current_tenant' = NoId
       ELSE /\ response' = "serving"
            /\ current_tenant' =
                  IF header # NoId THEN header
                  ELSE IF domain \in tenants THEN domain
                  ELSE IF 1 \in tenants THEN 1 ELSE NoId
    /\ UNCHANGED <<now, next_id, ledger, docs, currency_rates, is_base_currency, tenants,
                   tenant_rows, product_prices, price_set, lookup, exchange_rate_cache, events, threads>>

\* a view creates a row of a tenant-aware table for request.tenant; without
\* a tenant the NOT NULL column refuses the row. A Payment takes its number
\* from generate_payment_number in save, and the unique column refuses a
\* number that is already there
CreateTenantRow(table) ==
    /\ response = "serving"
    /\ current_tenant # NoId
    /\ events < MaxEvents
    /\ events' = events + 1
    /\ LET payment_number == IF table = "payments" THEN generate_payment_number
                             ELSE NoNumber
       IN  IF table = "payments" /\ payment_number \in PaymentNumbers
           THEN UNCHANGED <<tenant_rows, next_id>>
           ELSE /\ tenant_rows' = tenant_rows \cup
                     {[table |-> table, tenant |-> current_tenant, id |-> next_id,
                       payment_number |-> payment_number]}
                /\ next_id' = next_id + 1
    /\ UNCHANGED <<now, ledger, docs, currency_rates, is_base_currency, tenants,
                   current_tenant, product_prices, price_set, lookup, exchange_rate_cache, response, threads>>

\* TenantMiddleware.process_response
process_response ==
    /\ response = "serving"
    /\ response' = "done"
    /\ current_tenant' = NoId
    /\ UNCHANGED <<now, next_id, ledger, docs, currency_rates, is_base_currency, tenants,
                   tenant_rows, product_prices, price_set, lookup, exchange_rate_cache, events, threads>>

NextTenant ==
    \/ CreateTenant
    \/ \E t \in tenants : DeleteTenant(t)
    \/ \E h \in tenants \cup {NoId, 1}, host \in Hosts, d \in tenants \cup {NoId} :
          process_request(h, host, d)
    \/ \E table \in TenantTables : CreateTenantRow(table)
    \/ process_response

SpecTenant == InitRate /\ [][NextTenant]_vars

\* C21: a request served while no tenant is in scope gets no row of any
\* tenant from the tenant-aware manager.
NoTenantNoRows ==
    (response = "serving" /\ current_tenant = NoId)
    => \A table \in TenantTables : get_queryset(table) = {}

\* ============================================ replacing the current price
\* C22: when a new current ProductPrice is saved for a variant whose current
\* row has no end_date, that row is left with is_current false and with
\* end_date set to the time of the replacement.
ReplacedPriceIsClosed ==
    [][\A r \in product_prices :
          (/\ r.is_current
           /\ r.end_date = NoDate
           /\ \E n \in product_prices' :
                 n.id \notin Ids(product_prices) /\ n.variant = r.variant /\ n.is_current)
          => \E r2 \in product_prices' :
                r2.id = r.id /\ ~r2.is_current /\ r2.end_date = now]_vars

\* C23: when a new current ProductPrice replaces a current row, every field
\* the caller supplied is stored as supplied, a price of 0 included, and only
\* the fields the caller omitted are copied from the replaced row.
SuppliedPriceFieldsAreKept ==
    [][\A v \in Variants, f \in PriceInputs :
          (/\ CreateProductPrice(v, f, TRUE)
           /\ response' = "created"
           /\ CurrentRows(v) # {})
          => \E n \in product_prices', last \in CurrentRows(v) :
                /\ n.id = next_id
                /\ n.cost_price = IF f.cost_price = OmittedPrice
                                     THEN last.cost_price ELSE f.cost_price
                /\ n.cost_currency = IF f.cost_currency = NoneVal
                                        THEN last.cost_currency ELSE f.cost_currency
                /\ n.selling_price = IF f.selling_price = OmittedPrice
                                        THEN last.selling_price ELSE f.selling_price
                /\ n.selling_currency = IF f.selling_currency = NoneVal
                                           THEN last.selling_currency
                                           ELSE f.selling_currency]_vars

\* C24: the Transaction row of a sale payment or a purchase payment carries
\* the sale_date of its sale, or the purchase_date of its purchase, as its
\* transaction date.
PaymentTransactionHasEventDate ==
    \A t \in transactions :
        /\ \A s \in sales :
              (t.reference_type = "sale" /\ t.reference_id = s.id)
              => t.transaction_date = s.sale_date
        /\ \A p \in purchases :
              (t.reference_type = "purchase" /\ t.reference_id = p.id)
              => t.transaction_date = p.purchase_date

\* C25: the expense total the monthly and yearly reports compute for a day
\* takes in every expense whose expense_date falls on that day, at whatever
\* time of day.
DailyExpensesCoverTheDay ==
    \A d \in Times :
        LET day == {e \in expenses : e.expense_date = d}
        IN  daily_expenses(d) =
               SumsOver([e \in day |-> report_to_base(e.amount, e.currency, e.expense_date)],
                        day)

\* C26: a ProductPrice row whose is_current flag is false keeps it false in
\* every later state that saves of prices, of new rows and of existing ones,
\* lead to.
HistoricalPriceStaysHistorical ==
    [][\A r \in product_prices, r2 \in product_prices' :
          (r2.id = r.id /\ ~r.is_current) => ~r2.is_current]_vars

\* a replaced row was saved again after the row that replaced it was
\* written, and is still not current
HistoricalPriceSavedAgain ==
    \E r \in product_prices, c \in product_prices :
        /\ r.variant = c.variant
        /\ r.id < c.id
        /\ ~r.is_current
        /\ c.is_current
        /\ r.effective_date > c.effective_date

\* ---------------------------------------------------------------------------
\* C27: after any sequence of expense creations, updates and deletions the
\* balance of each (drawer, currency) is its initial balance, which is zero,
\* minus the sum of the amounts of the expenses that exist for that drawer
\* and currency.
ExpensesOf(drawer, currency) ==
    {e \in expenses : e.cash_drawer = drawer /\ e.currency = currency}

DrawerIsInitialMinusExpenses ==
    \A d \in Drawers, c \in Currencies :
        DrawerAmount(cash_drawer_money, <<d, c>>) =
            0 - SumOver([e \in ExpensesOf(d, c) |-> e.amount], ExpensesOf(d, c))


\* ---------------------------------------------------------------------------
\* C28: after any sequence of rate insertions and lookups,
\* get_cached_exchange_rate(currency, date) returns a value that
\* get_exchange_rate(currency, date) returns at that moment, for every currency
\* and date: a rate inserted after a key was cached shows in later lookups.
CachedRateIsTheStoredRate ==
    \A c \in Currencies, d \in Times :
        get_cached_exchange_rate(c, d) \subseteq get_exchange_rate(c, d)


\* ---------------------------------------------------------------------------
\* C29: the number Payment.generate_payment_number returns for the tenant of
\* the request being served is held by no existing Payment of any tenant.
GeneratedPaymentNumberIsFresh ==
    (response = "serving" /\ current_tenant # NoId)
    => generate_payment_number \notin PaymentNumbers


\* ---------------------------------------------------------------------------
\* C30: after any sequence of currency saves, the currency whose
\* is_base_currency flag is true is the one Currency.get_base_currency returns.
BaseCurrencyIsTheFlaggedOne ==
    \A c \in Currencies : is_base_currency[c] => get_base_currency = c


====
